---- MODULE Spec2Model ----
(***************************************************************************)
(* Codeforces contest reminder bot (bot.py).                               *)
(*                                                                         *)
(* State: the in-memory subscriber set and its backing file, the           *)
(* scheduler's job store, the contest list the provider currently serves,  *)
(* the wall clock, the reminder delivery in progress and the periodic      *)
(* check in progress.  Instants are seconds since process start.           *)
(***************************************************************************)
EXTENDS Integers, Sequences, FiniteSets, TLC

\* ------------------------------------------------------------------ bounds
MaxTime == 14400
MaxSent == 2
MaxUpdates == 1
MaxRestarts == 1
MaxFaults == 1

ContestIds == {1, 2}
ChatIds == {1, 2}

\* -------------------------------------------------------- program constants
SCHEDULER_CHECK_INTERVAL_HOURS == 4
MISFIRE_GRACE_TIME == 300
STARTED_SLACK == 60

\* A catalogue whose last reminder is due less than misfire_grace_time
\* before the start.
REMINDER_INTERVALS_WITHIN_GRACE ==
  << [interval_str |-> "24h", delta |-> 24 * 3600],
     [interval_str |-> "1h",  delta |-> 3600],
     [interval_str |-> "15m", delta |-> 4 * 60] >>

REMINDER_INTERVALS ==
  << [interval_str |-> "24h", delta |-> 24 * 3600],
     [interval_str |-> "1h",  delta |-> 3600],
     [interval_str |-> "15m", delta |-> 15 * 60] >>

Labels == {REMINDER_INTERVALS[k].interval_str : k \in DOMAIN REMINDER_INTERVALS}

Delta(interval_str) ==
  REMINDER_INTERVALS[CHOOSE k \in DOMAIN REMINDER_INTERVALS :
                       REMINDER_INTERVALS[k].interval_str = interval_str].delta

CheckInterval == SCHEDULER_CHECK_INTERVAL_HOURS * 3600

\* ------------------------------------------------------------ input domains
\* Start instants the provider may announce, as seconds after process start:
\* contest 1 starts in 25 hours; contest 2 starts in 2 hours or, postponed,
\* in 5 hours.  The provider lists contest 1 first, so the sort by start
\* instant has work to do.
StartsOf(c) == IF c = 1 THEN {90000} ELSE {7200, 18000}

StartTimes == UNION {StartsOf(c) : c \in ContestIds}

\* Instants at which the clock is observed: every nominal fire instant and
\* the edge of its grace window; every start instant and the edge of the
\* one-minute "already started" slack; every periodic tick.
Instants ==
  { t \in ( {0}
            \cup { s - REMINDER_INTERVALS[k].delta + g :
                     s \in StartTimes, k \in DOMAIN REMINDER_INTERVALS,
                     g \in {0, MISFIRE_GRACE_TIME} }
            \cup { s + g : s \in StartTimes, g \in {0, STARTED_SLACK} }
            \cup { n * CheckInterval : n \in 1..3 } ) :
      t >= 0 /\ t <= MaxTime }

Phases == {"BEFORE", "FINISHED"}
FetchOutcomes == {"OK", "FAILED", "error"}
SaveOutcomes == {"ok", "open_error", "write_error"}

\* ----------------------------------------------------------------- helpers
Min(a, b) == IF a <= b THEN a ELSE b

Range(s) == {s[k] : k \in DOMAIN s}

RECURSIVE SetToList(_)
SetToList(S) ==
  IF S = {} THEN <<>>
  ELSE LET m == CHOOSE x \in S : \A y \in S : x <= y
       IN  <<m>> \o SetToList(S \ {m})

VARIABLES
  now,          \* wall clock
  remote,       \* contest list served by the provider: id -> [startTimeSeconds, phase]
  subscribers,  \* module-level set `subscribers`
  file,         \* content of SUBSCRIBERS_FILE
  jobs,         \* scheduler job store: job id -> pending jobs carrying that id
  check,        \* periodic check in progress in the scheduler's worker
  next_check,   \* next fire instant of the periodic check
  dl,           \* reminder delivery in progress, or the one that just returned
  watch,        \* the chat and the contest whose messages are counted, if any
  sent,         \* messages the watched chat got about the watched contest, per label
  failed,       \* labels whose send to the watched chat failed for another reason
  last,         \* the scheduling pass that just completed, if any
  saved,        \* the latest save_subscribers: how it ended, the set it was given
  started,      \* post_init hook has run in this process
  updates,      \* changes the provider may still make to its list
  restarts,     \* process restarts still to come
  faults        \* I/O errors the file system may still produce

vars == << now, remote, subscribers, file, jobs, check, next_check, dl, watch, sent,
           failed, last, saved, started, updates, restarts, faults >>

\* What no handler of the program writes.
env == << now, remote, watch, updates, restarts >>

\* ------------------------------------------------------- subscriber storage
Absent == [kind |-> "absent", data |-> <<>>]
Garbage == [kind |-> "garbage", data |-> <<>>]
NotAList == [kind |-> "json_object", data |-> <<>>]
JsonList(l) == [kind |-> "json_list", data |-> l]

\* load_subscribers(): the set of the JSON array's elements; empty when the
\* file is absent, is not JSON, or holds JSON that is not a list.
load_subscribers(f) ==
  IF f.kind = "absent" THEN {}
  ELSE IF f.kind = "garbage" THEN {}
  ELSE IF f.kind # "json_list" THEN {}
  ELSE Range(f.data)

\* A save that hands the set itself to json.dump: it raises after the
\* truncating open, and the error is logged.
save_subscribers_dumping_set(f, subscribers_set, outcome) ==
  IF outcome = "open_error" THEN f
  ELSE Garbage

\* save_subscribers(subscribers_set): open(.., "w") truncates, json.dump writes
\* list(subscribers_set).  An error at open leaves the old content; an error
\* after the truncating open leaves a file that is not JSON.
save_subscribers(f, subscribers_set, outcome) ==
  IF outcome = "open_error" THEN f
  ELSE IF outcome = "write_error" THEN Garbage
  ELSE JsonList(SetToList(subscribers_set))

\* ------------------------------------------------------------ contest fetch
\* The "result" array of the provider's answer.
ApiResult ==
  [c \in ContestIds |->
     [id |-> c, startTimeSeconds |-> remote[c].startTimeSeconds,
      phase |-> remote[c].phase]]

RECURSIVE InsertByStart(_, _)
InsertByStart(sorted, c) ==
  IF sorted = <<>> THEN <<c>>
  ELSE IF c.startTimeSeconds < Head(sorted).startTimeSeconds
       THEN <<c>> \o sorted
       ELSE <<Head(sorted)>> \o InsertByStart(Tail(sorted), c)

RECURSIVE SortByStart(_)
SortByStart(l) ==
  IF l = <<>> THEN <<>>
  ELSE InsertByStart(SortByStart(SubSeq(l, 1, Len(l) - 1)), l[Len(l)])

\* A fetch that takes the result array whatever the answer's status says.
fetch_upcoming_contests_unchecked(outcome) ==
  IF outcome \in {"OK", "FAILED"}
  THEN SortByStart(SelectSeq(ApiResult, LAMBDA c : c.phase = "BEFORE"))
  ELSE <<>>

\* fetch_upcoming_contests(): the BEFORE contests by ascending start, or the
\* empty list when the request, its status field or its parsing fails.
fetch_upcoming_contests(outcome) ==
  IF outcome = "OK"
  THEN SortByStart(SelectSeq(ApiResult, LAMBDA c : c.phase = "BEFORE"))
  ELSE <<>>

\* ------------------------------------------------------------- job store
JobIds == ContestIds \X Labels

JobId(contest_id, interval_str) == <<contest_id, interval_str>>

NoJobs == [j \in JobIds |-> <<>>]

\* scheduler.get_job(job_id): the pending job with that id, if any.
get_job(J, job_id) == J[job_id]

\* add_job that stores the job whatever the store already holds.
add_job_unchecked(J, job) ==
  [raised |-> FALSE, jobs |-> [J EXCEPT ![job.id] = Append(@, job)]]

\* scheduler.add_job(..., id=job_id): the store refuses an id it already
\* holds (ConflictingIdError).
add_job(J, job) ==
  IF J[job.id] # <<>>
  THEN [raised |-> TRUE, jobs |-> J]
  ELSE [raised |-> FALSE, jobs |-> [J EXCEPT ![job.id] = Append(@, job)]]

NewJob(contest, interval_str) ==
  [id |-> JobId(contest.id, interval_str),
   run_date |-> contest.startTimeSeconds - Delta(interval_str),
   contest |-> contest,
   interval_str |-> interval_str]

ActiveJobs(J) == UNION {Range(J[j]) : j \in JobIds}

\* ------------------------------------------------- scheduling of reminders
NumIntervals == Len(REMINDER_INTERVALS)

\* line 229: a contest whose start is not after now_utc is passed over.
ContestUpcoming(start_time, now_utc) == ~(start_time <= now_utc)

\* A comparison that lets through the reminder whose instant is now_utc.
ReminderAtOrAhead(reminder_time, now_utc) == reminder_time >= now_utc

\* line 236: a reminder is scheduled only when its instant is still ahead.
ReminderAhead(reminder_time, now_utc) == reminder_time > now_utc

\* lines 229-240: the loop reaches add_job for this contest and interval.
NeedsJob(J, contest, k, now_utc) ==
  /\ ContestUpcoming(contest.startTimeSeconds, now_utc)
  /\ ReminderAhead(contest.startTimeSeconds - REMINDER_INTERVALS[k].delta, now_utc)
  /\ get_job(J, JobId(contest.id, REMINDER_INTERVALS[k].interval_str)) = <<>>

\* add_job without the scheduled_count += 1 of line 254.
AddReminderUncounted(acc, contest, k) ==
  LET r == add_job(acc.jobs, NewJob(contest, REMINDER_INTERVALS[k].interval_str))
  IN  IF r.raised THEN acc
      ELSE [jobs |-> r.jobs, scheduled_count |-> acc.scheduled_count]

\* lines 245-256: add_job, counted unless it raised (the exception is logged).
AddReminder(acc, contest, k) ==
  LET r == add_job(acc.jobs, NewJob(contest, REMINDER_INTERVALS[k].interval_str))
  IN  IF r.raised THEN acc
      ELSE [jobs |-> r.jobs, scheduled_count |-> acc.scheduled_count + 1]

\* The loops of lines 223 and 232 flattened: position p is interval
\* ((p-1) % n) + 1 of contest ((p-1) \div n) + 1.
PairContest(contests, p) == contests[((p - 1) \div NumIntervals) + 1]
PairInterval(p) == ((p - 1) % NumIntervals) + 1
NumPairs(contests) == Len(contests) * NumIntervals

\* One turn of the inner loop that asks for no existing job and adds with
\* replace_existing=True, as line 387 does for the periodic job.
ScheduleIntervalReplacing(acc, contest, k, now_utc) ==
  IF /\ ContestUpcoming(contest.startTimeSeconds, now_utc)
     /\ ReminderAhead(contest.startTimeSeconds - REMINDER_INTERVALS[k].delta, now_utc)
  THEN [jobs |-> [acc.jobs EXCEPT
                    ![JobId(contest.id, REMINDER_INTERVALS[k].interval_str)] =
                       <<NewJob(contest, REMINDER_INTERVALS[k].interval_str)>>],
        scheduled_count |-> acc.scheduled_count + 1]
  ELSE acc

\* One turn of the inner loop with the rescheduling that the comment of
\* lines 241-242 leaves out: a job that exists with another run_date is
\* replaced.
ScheduleIntervalRetiming(acc, contest, k, now_utc) ==
  LET job == NewJob(contest, REMINDER_INTERVALS[k].interval_str)
  IN  IF NeedsJob(acc.jobs, contest, k, now_utc)
      THEN AddReminder(acc, contest, k)
      ELSE IF /\ ContestUpcoming(contest.startTimeSeconds, now_utc)
              /\ ReminderAhead(contest.startTimeSeconds - REMINDER_INTERVALS[k].delta,
                               now_utc)
              /\ acc.jobs[job.id] # <<>>
              /\ Head(acc.jobs[job.id]).run_date # job.run_date
           THEN [acc EXCEPT !.jobs[job.id] = <<job>>]
           ELSE acc

\* lines 229-258: one turn of the inner loop.
ScheduleInterval(acc, contest, k, now_utc) ==
  IF NeedsJob(acc.jobs, contest, k, now_utc)
  THEN AddReminder(acc, contest, k)
  ELSE acc

RECURSIVE ScheduleFrom(_, _, _, _)
ScheduleFrom(acc, contests, p, now_utc) ==
  IF p > NumPairs(contests) THEN acc
  ELSE ScheduleFrom(ScheduleInterval(acc, PairContest(contests, p), PairInterval(p), now_utc),
                    contests, p + 1, now_utc)

\* manage_and_schedule_reminders run without interruption, given the fetched
\* list and now_utc: the job store it leaves and its scheduled_count.
manage_and_schedule_reminders(J, contests, now_utc) ==
  IF contests = <<>> THEN [jobs |-> J, scheduled_count |-> 0]
  ELSE ScheduleFrom([jobs |-> J, scheduled_count |-> 0], contests, 1, now_utc)

\* First position at or after p whose get_job finds nothing, or past the end.
RECURSIVE NextToAdd(_, _, _, _)
NextToAdd(J, contests, p, now_utc) ==
  IF p > NumPairs(contests) THEN p
  ELSE IF NeedsJob(J, PairContest(contests, p), PairInterval(p), now_utc) THEN p
  ELSE NextToAdd(J, contests, p + 1, now_utc)

\* Record of the pass that just completed, with the one completed right
\* before it (if nothing happened in between).
NoRun == [kind |-> "none"]

RunRecord(contests, now_utc, count, J) ==
  [kind |-> "pass", contests |-> contests, now_utc |-> now_utc,
   scheduled_count |-> count, jobs |-> J,
   prev |-> IF last = NoRun THEN NoRun ELSE [last EXCEPT !.prev = NoRun]]

IdleCheck == [pc |-> "idle", contests |-> <<>>, now_utc |-> 0, p |-> 0, scheduled_count |-> 0]

NoContest == [id |-> 0, startTimeSeconds |-> 0, phase |-> "BEFORE"]

IdleDelivery ==
  [state |-> "idle", why |-> "", contest |-> NoContest, interval_str |-> "",
   chat_ids_to_notify |-> <<>>, i |-> 0, results |-> <<>>, before |-> {}, at |-> 0,
   dump |-> <<>>]

\* No handler has just returned: its record has been dropped.
Settled == dl.state # "returned" /\ last = NoRun

\* ------------------------------------------------------ reminder delivery
\* Errors app.bot.send_message may raise, by their text.
UnreachableErrors ==
  { "bot was blocked", "user is deactivated", "chat not found",
    "forbidden: bot was kicked",
    "forbidden: bot can't initiate conversation with a user" }
OtherErrors == { "timed out" }
SendErrors == UnreachableErrors \cup OtherErrors

\* A test that takes any failed send for an unreachable recipient.
IsAnyError(error_str) == error_str \in SendErrors

\* lines 199-203: the error text names a recipient that cannot be reached.
IsUnreachable(error_str) == error_str \in UnreachableErrors

\* A test that lets a contest started exactly a minute ago through.
AlreadyStartedStrict(start_time, t) == start_time < t - STARTED_SLACK

\* line 178: the contest started a minute ago or earlier.
AlreadyStarted(start_time, t) == start_time <= t - STARTED_SLACK

\* A delivery that takes its recipients from the file, not from the set.
DeliveryBegunFromFile(contest, interval_str) ==
  LET chat_ids_to_notify == SetToList(load_subscribers(file))
      call == [IdleDelivery EXCEPT !.contest = contest, !.interval_str = interval_str,
                                   !.chat_ids_to_notify = chat_ids_to_notify,
                                   !.before = subscribers, !.at = now]
  IN  IF chat_ids_to_notify = <<>>
      THEN [call EXCEPT !.state = "returned", !.why = "no_subscribers"]
      ELSE IF AlreadyStarted(contest.startTimeSeconds, now)
      THEN [call EXCEPT !.state = "returned", !.why = "started"]
      ELSE [call EXCEPT !.state = "sending", !.i = 1]

\* lines 172-180: the snapshot of the subscribers and the two early returns.
DeliveryBegun(contest, interval_str) ==
  LET chat_ids_to_notify == SetToList(subscribers)
      call == [IdleDelivery EXCEPT !.contest = contest, !.interval_str = interval_str,
                                   !.chat_ids_to_notify = chat_ids_to_notify,
                                   !.before = subscribers, !.at = now]
  IN  IF chat_ids_to_notify = <<>>
      THEN [call EXCEPT !.state = "returned", !.why = "no_subscribers"]
      ELSE IF AlreadyStarted(contest.startTimeSeconds, now)
      THEN [call EXCEPT !.state = "returned", !.why = "started"]
      ELSE [call EXCEPT !.state = "sending", !.i = 1]

\* A loop that the first failed send ends (no try/except around the send).
AdvancedStoppingOnError(d, result) ==
  LET e == [d EXCEPT !.results = Append(@, result), !.i = @ + 1]
  IN  IF e.i > Len(e.chat_ids_to_notify) \/ result # "ok"
      THEN [e EXCEPT !.state = "returned", !.why = "done"]
      ELSE e

\* The loop of line 192 moves to the next chat, or the function returns.
Advanced(d, result) ==
  LET e == [d EXCEPT !.results = Append(@, result), !.i = @ + 1]
  IN  IF e.i > Len(e.chat_ids_to_notify)
      THEN [e EXCEPT !.state = "returned", !.why = "done"]
      ELSE e

Watched(chat_id, d) == watch = <<chat_id, d.contest.id>>

Counted(chat_id, d) ==
  IF Watched(chat_id, d)
  THEN [sent EXCEPT ![d.interval_str] = Min(@ + 1, MaxSent)]
  ELSE sent

\* save_subscribers(subscribers) after the set has changed, with the I/O
\* errors the file system may still produce.
Saving ==
  \E outcome \in (IF faults > 0 THEN SaveOutcomes ELSE {"ok"}) :
    /\ file' = save_subscribers(file, subscribers', outcome)
    /\ saved' = [outcome |-> outcome, set |-> subscribers']
    /\ faults' = IF outcome = "ok" THEN faults ELSE faults - 1

\* A successful send that puts its recipient (back) among the subscribers.
SendOkResubscribing ==
  /\ dl.state = "sending"
  /\ last = NoRun
  /\ LET chat_id == dl.chat_ids_to_notify[dl.i]
     IN  /\ sent' = Counted(chat_id, dl)
         /\ dl' = Advanced(dl, "ok")
         /\ subscribers' = subscribers \cup {chat_id}
  /\ UNCHANGED << env, file, jobs, check, next_check, failed, last, saved,
                  started, faults >>

\* lines 192-195, one iteration: the send succeeds.
SendOk ==
  /\ dl.state = "sending"
  /\ last = NoRun
  /\ LET chat_id == dl.chat_ids_to_notify[dl.i]
     IN  /\ sent' = Counted(chat_id, dl)
         /\ dl' = Advanced(dl, "ok")
  /\ UNCHANGED << env, subscribers, file, jobs, check, next_check, failed, last, saved,
                  started, faults >>

\* lines 196-207, one iteration: the send raises.
SendFails ==
  /\ dl.state = "sending"
  /\ last = NoRun
  /\ \E e \in SendErrors :
       LET chat_id == dl.chat_ids_to_notify[dl.i]
       IN  IF IsUnreachable(e)
           THEN /\ dl' = Advanced(dl, "unreachable")
                /\ failed' = failed
                /\ IF chat_id \in subscribers
                   THEN /\ subscribers' = subscribers \ {chat_id}
                        /\ Saving
                   ELSE UNCHANGED << subscribers, file, saved, faults >>
           ELSE /\ dl' = Advanced(dl, "transient")
                /\ failed' = IF Watched(chat_id, dl)
                              THEN failed \cup {dl.interval_str} ELSE failed
                /\ UNCHANGED << subscribers, file, saved, faults >>
  /\ UNCHANGED << env, jobs, check, next_check, sent, last, started >>

\* The file after open(SUBSCRIBERS_FILE, "w"): empty, which is not JSON.
Truncated == Garbage

\* The file after a handle opened earlier flushes the text of list l at its
\* offset 0: l when nothing longer has been written since that open, and
\* otherwise the text of l followed by the rest of the longer text.
WrittenOver(f, l) ==
  IF f.kind = "json_list" /\ Len(f.data) > Len(l) THEN Garbage ELSE JsonList(l)

\* lines 204-207 in the scheduler's worker thread, up to the json.dump of
\* line 127: the discard, the truncating open, list(subscribers_set).
SendFailsOpen ==
  /\ dl.state = "sending"
  /\ last = NoRun
  /\ \E e \in UnreachableErrors :
       LET chat_id == dl.chat_ids_to_notify[dl.i]
       IN  /\ IsUnreachable(e)
           /\ chat_id \in subscribers
           /\ subscribers' = subscribers \ {chat_id}
           /\ file' = Truncated
           /\ dl' = [dl EXCEPT !.state = "saving", !.dump = SetToList(subscribers')]
  /\ UNCHANGED << env, jobs, check, next_check, sent, failed, last, saved, started,
                  faults >>

\* lines 127-128 in the worker thread: the text is flushed to the file, and
\* the loop goes on.
SaveFlush ==
  /\ dl.state = "saving"
  /\ last = NoRun
  /\ file' = WrittenOver(file, dl.dump)
  /\ saved' = [outcome |-> "ok", set |-> Range(dl.dump)]
  /\ dl' = Advanced([dl EXCEPT !.state = "sending", !.dump = <<>>], "unreachable")
  /\ UNCHANGED << env, subscribers, jobs, check, next_check, sent, failed, last,
                  started, faults >>

\* A scheduler that runs a due job however late it is.
RunJobHoweverLate ==
  /\ Settled
  /\ dl.state = "idle"
  /\ \E j \in JobIds :
       /\ jobs[j] # <<>>
       /\ LET job == Head(jobs[j])
          IN  /\ now >= job.run_date
              /\ jobs' = [jobs EXCEPT ![j] = Tail(@)]
              /\ dl' = DeliveryBegun(job.contest, job.interval_str)
  /\ UNCHANGED << env, subscribers, file, check, next_check, sent, failed, last, saved,
                  started, faults >>

\* The scheduler takes a due job out of the store and runs it, unless its
\* run_date was missed by more than misfire_grace_time (line 251).
RunJob ==
  /\ Settled
  /\ dl.state = "idle"
  /\ \E j \in JobIds :
       /\ jobs[j] # <<>>
       /\ LET job == Head(jobs[j])
          IN  /\ now >= job.run_date
              /\ jobs' = [jobs EXCEPT ![j] = Tail(@)]
              /\ dl' = IF now - job.run_date > MISFIRE_GRACE_TIME
                       THEN [IdleDelivery EXCEPT !.state = "returned", !.why = "missed",
                                                 !.contest = job.contest,
                                                 !.interval_str = job.interval_str,
                                                 !.before = subscribers, !.at = now]
                       ELSE DeliveryBegun(job.contest, job.interval_str)
  /\ UNCHANGED << env, subscribers, file, check, next_check, sent, failed, last, saved,
                  started, faults >>

\* The handler that just returned is done with: its record is dropped.
Return ==
  /\ ~Settled
  /\ dl' = IF dl.state = "returned" THEN IdleDelivery ELSE dl
  /\ last' = NoRun
  /\ UNCHANGED << env, subscribers, file, jobs, check, next_check, sent, failed, saved,
                  started, faults >>

\* ------------------------------------------------------ scheduling passes
\* manage_and_schedule_reminders called on the event loop (no await inside
\* suspends it): fetch, now_utc, the loops.
PassOnLoop ==
  \E outcome \in FetchOutcomes :
    LET contests == fetch_upcoming_contests(outcome)
        r == manage_and_schedule_reminders(jobs, contests, now)
    IN  /\ jobs' = r.jobs
        /\ last' = RunRecord(contests, now, r.scheduled_count, r.jobs)

\* post_initialization_hook (lines 338-353).
Startup ==
  /\ Settled
  /\ ~started
  /\ started' = TRUE
  /\ PassOnLoop
  /\ UNCHANGED << env, subscribers, file, check, next_check, dl, sent, failed, saved,
                  faults >>

\* subscribe_command (lines 287-296), from a chat not yet subscribed.
Subscribe ==
  /\ dl.state # "returned"
  /\ started
  /\ \E chat_id \in ChatIds :
       /\ chat_id \notin subscribers
       /\ subscribers' = subscribers \cup {chat_id}
       /\ Saving
  /\ PassOnLoop
  /\ UNCHANGED << env, check, next_check, dl, sent, failed, started >>

\* Record of a command that ended with a reply and nothing else.
ReplyRecord(text, chat_id) ==
  [kind |-> text, chat_id |-> chat_id, contests |-> <<>>, now_utc |-> now,
   scheduled_count |-> 0, jobs |-> jobs, prev |-> NoRun]

\* subscribe_command from a chat already subscribed (lines 295-296): a reply,
\* nothing else.
SubscribeAgain ==
  /\ Settled
  /\ started
  /\ \E chat_id \in ChatIds :
       /\ chat_id \in subscribers
       /\ last' = ReplyRecord("already_subscribed", chat_id)
  /\ UNCHANGED << env, subscribers, file, jobs, check, next_check, dl, sent, failed,
                  saved, started, faults >>

\* subscribe_command from a new chat whose reply of line 292 raises (the
\* chat is gone, the network is down): the handler ends there, after the
\* add and the save and before line 294.
SubscribeReplyFails ==
  /\ Settled
  /\ started
  /\ \E chat_id \in ChatIds :
       /\ chat_id \notin subscribers
       /\ subscribers' = subscribers \cup {chat_id}
       /\ Saving
  /\ UNCHANGED << env, jobs, check, next_check, dl, sent, failed, last, started >>

\* An unsubscribe_command that discards and does not save.
UnsubscribeWithoutSave ==
  /\ Settled
  /\ started
  /\ \E chat_id \in ChatIds :
       /\ chat_id \in subscribers
       /\ subscribers' = subscribers \ {chat_id}
  /\ saved' = [outcome |-> "ok", set |-> subscribers']
  /\ UNCHANGED << env, file, jobs, check, next_check, dl, sent, failed, last, started,
                  faults >>

\* unsubscribe_command (lines 298-306), from a subscribed chat.
Unsubscribe ==
  /\ Settled
  /\ started
  /\ \E chat_id \in ChatIds :
       /\ chat_id \in subscribers
       /\ subscribers' = subscribers \ {chat_id}
       /\ Saving
  /\ UNCHANGED << env, jobs, check, next_check, dl, sent, failed, last, started >>

\* unsubscribe_command from a chat that is not subscribed (lines 305-306):
\* a reply, nothing else.
UnsubscribeAbsent ==
  /\ Settled
  /\ started
  /\ \E chat_id \in ChatIds :
       /\ chat_id \notin subscribers
       /\ last' = ReplyRecord("not_subscribed", chat_id)
  /\ UNCHANGED << env, subscribers, file, jobs, check, next_check, dl, sent, failed,
                  saved, started, faults >>

\* A periodic job that is not scheduled again after a cycle whose fetch
\* came back empty.
CheckBeginDroppedOnFailure ==
  /\ dl.state # "returned"
  /\ check.pc = "idle"
  /\ now >= next_check
  /\ \E outcome \in FetchOutcomes :
       LET contests == fetch_upcoming_contests(outcome)
       IN  IF contests = <<>>
           THEN /\ check' = IdleCheck
                /\ last' = RunRecord(contests, now, 0, jobs)
                /\ next_check' = next_check
           ELSE /\ check' = [pc |-> "scan", contests |-> contests, now_utc |-> now,
                             p |-> 1, scheduled_count |-> 0]
                /\ last' = NoRun
                /\ next_check' = next_check
                       + CheckInterval * (((now - next_check) \div CheckInterval) + 1)
  /\ UNCHANGED << env, subscribers, file, jobs, dl, sent, failed, saved, started, faults >>

\* The periodic job of lines 380-388 fires in the scheduler's worker:
\* lines 211-220.
CheckBegin ==
  /\ dl.state # "returned"
  /\ check.pc = "idle"
  /\ now >= next_check
  /\ next_check' = next_check + CheckInterval * (((now - next_check) \div CheckInterval) + 1)
  /\ \E outcome \in FetchOutcomes :
       LET contests == fetch_upcoming_contests(outcome)
       IN  IF contests = <<>>
           THEN /\ check' = IdleCheck
                /\ last' = RunRecord(contests, now, 0, jobs)
           ELSE /\ check' = [pc |-> "scan", contests |-> contests, now_utc |-> now,
                             p |-> 1, scheduled_count |-> 0]
                /\ last' = NoRun
  /\ UNCHANGED << env, subscribers, file, jobs, dl, sent, failed, saved, started, faults >>

\* Lines 223-240 in the worker: the loops run on to the next get_job that
\* finds nothing, or to their end (lines 260-263).
CheckScan ==
  /\ Settled
  /\ check.pc = "scan"
  /\ LET q == NextToAdd(jobs, check.contests, check.p, check.now_utc)
     IN  IF q > NumPairs(check.contests)
         THEN /\ check' = IdleCheck
              /\ last' = RunRecord(check.contests, check.now_utc,
                                   check.scheduled_count, jobs)
         ELSE /\ check' = [check EXCEPT !.pc = "add", !.p = q]
              /\ last' = last
  /\ UNCHANGED << env, subscribers, file, jobs, next_check, dl, sent, failed, saved,
                  started, faults >>

\* Lines 245-256 in the worker: add_job for the position get_job found free.
CheckAdd ==
  /\ Settled
  /\ check.pc = "add"
  /\ LET r == AddReminder([jobs |-> jobs, scheduled_count |-> check.scheduled_count],
                          PairContest(check.contests, check.p), PairInterval(check.p))
     IN  /\ jobs' = r.jobs
         /\ check' = [check EXCEPT !.pc = "scan", !.p = @ + 1,
                                   !.scheduled_count = r.scheduled_count]
  /\ UNCHANGED << env, subscribers, file, next_check, dl, sent, failed, last, saved,
                  started, faults >>

\* ------------------------------------------------------------ environment
\* The clock reaches a later instant (no delivery spans two instants).
Tick ==
  /\ Settled
  /\ dl.state = "idle"
  /\ \E t \in Instants : t > now /\ now' = t
  /\ UNCHANGED << remote, subscribers, file, jobs, check, next_check, dl, watch, sent,
                  failed, last, saved, started, updates, restarts, faults >>

\* The provider publishes, moves or closes a contest.
ProviderUpdate ==
  /\ Settled
  /\ updates > 0
  /\ updates' = updates - 1
  /\ \E c \in ContestIds : \E s \in StartsOf(c), ph \in Phases :
       /\ remote[c] # [startTimeSeconds |-> s, phase |-> ph]
       /\ remote' = [remote EXCEPT ![c] = [startTimeSeconds |-> s, phase |-> ph]]
  /\ UNCHANGED << now, subscribers, file, jobs, check, next_check, dl, watch, sent,
                  failed, last, saved, started, restarts, faults >>

\* The process ends and is started again: line 145 loads the subscribers, the
\* scheduler of line 146 starts with an empty store, main() adds the periodic job.
Restart ==
  /\ Settled
  /\ started
  /\ restarts > 0
  /\ restarts' = restarts - 1
  /\ subscribers' = load_subscribers(file)
  /\ jobs' = NoJobs
  /\ check' = IdleCheck
  /\ next_check' = now + CheckInterval
  /\ dl' = IdleDelivery
  /\ started' = FALSE
  /\ UNCHANGED << now, remote, file, watch, sent, failed, last, saved, updates, faults >>

\* A test calls send_actual_reminder(app, contest, interval_str) itself.
Deliver ==
  /\ Settled
  /\ started
  /\ dl.state = "idle"
  /\ \E c \in ContestIds : \E s \in StartsOf(c), interval_str \in Labels :
       dl' = DeliveryBegun([id |-> c, startTimeSeconds |-> s, phase |-> "BEFORE"],
                           interval_str)
  /\ UNCHANGED << env, subscribers, file, jobs, check, next_check, sent, failed, last,
                  saved, started, faults >>

Files ==
  {Absent, Garbage, NotAList} \cup {JsonList(SetToList(S)) : S \in SUBSET ChatIds}

\* The process has been constructed (lines 145-146, 380-392): nothing is
\* scheduled but the periodic check.
Constructed ==
  /\ now = 0
  /\ remote = [c \in ContestIds |->
                 [startTimeSeconds |-> CHOOSE s \in StartsOf(c) : \A t \in StartsOf(c) : s <= t,
                  phase |-> "BEFORE"]]
  /\ subscribers = load_subscribers(file)
  /\ jobs = NoJobs
  /\ check = IdleCheck
  /\ next_check = CheckInterval
  /\ dl = IdleDelivery
  /\ sent = [l \in Labels |-> 0]
  /\ failed = {}
  /\ last = NoRun
  /\ saved = [outcome |-> "none", set |-> {}]
  /\ started = FALSE

NoWatch == <<0, 0>>

\* A first deployment: no subscribers file yet.
Init ==
  /\ file = Absent
  /\ Constructed
  /\ watch = NoWatch
  /\ updates = MaxUpdates
  /\ restarts = MaxRestarts
  /\ faults = MaxFaults

Next ==
  \/ Startup
  \/ Subscribe
  \/ Unsubscribe
  \/ CheckBegin
  \/ CheckScan
  \/ CheckAdd
  \/ RunJob
  \/ SendOk
  \/ SendFails
  \/ Return
  \/ Tick
  \/ ProviderUpdate
  \/ Restart

Spec == Init /\ [][Next]_vars

Quiet == check.pc = "idle" /\ dl.state # "sending"

InitSeq ==
  /\ file = Absent
  /\ Constructed
  /\ watch \in ChatIds \X ContestIds
  /\ updates = MaxUpdates
  /\ restarts = MaxRestarts
  /\ faults = 0

NextSeq ==
  \/ Quiet /\ Startup
  \/ Quiet /\ Subscribe
  \/ Quiet /\ Unsubscribe
  \/ Quiet /\ CheckBegin
  \/ Quiet /\ RunJob
  \/ Quiet /\ Tick
  \/ Quiet /\ ProviderUpdate
  \/ Quiet /\ Restart
  \/ CheckScan
  \/ CheckAdd
  \/ SendOk
  \/ SendFails
  \/ Return

SpecSeq == InitSeq /\ [][NextSeq]_vars

InitUnit ==
  /\ file \in Files
  /\ Constructed
  /\ watch = NoWatch
  /\ updates = 0
  /\ restarts = MaxRestarts
  /\ faults = MaxFaults

NextUnit ==
  \/ Quiet /\ Startup
  \/ Quiet /\ Subscribe
  \/ Quiet /\ Unsubscribe
  \/ Quiet /\ RunJob
  \/ Quiet /\ Deliver
  \/ Quiet /\ Tick
  \/ Quiet /\ Restart
  \/ SendOk
  \/ SendFails
  \/ Return

SpecUnit == InitUnit /\ [][NextUnit]_vars

\* The reminder jobs run in the worker threads of the BackgroundScheduler
\* of line 146 while the command handlers run on the event loop: a command
\* may be handled between any two steps of a delivery.
InitThreads ==
  /\ file = Absent
  /\ Constructed
  /\ watch = NoWatch
  /\ updates = 0
  /\ restarts = 0
  /\ faults = 0

NextThreads ==
  \/ Startup
  \/ Subscribe
  \/ Unsubscribe
  \/ RunJob
  \/ SendOk
  \/ SendFails
  \/ SendFailsOpen
  \/ SaveFlush
  \/ Return
  \/ Tick

SpecThreads == InitThreads /\ [][NextThreads]_vars

\* One process left running: the event loop runs the post_init hook and the
\* handlers it has started, and the scheduler runs the periodic check when
\* it is due and a reminder job when one is due.
InitLive ==
  /\ file = Absent
  /\ Constructed
  /\ watch = NoWatch
  /\ updates = 0
  /\ restarts = 0
  /\ faults = 0

NextLive ==
  \/ Startup
  \/ Subscribe
  \/ Unsubscribe
  \/ CheckBegin
  \/ CheckScan
  \/ CheckAdd
  \/ RunJob
  \/ SendOk
  \/ SendFails
  \/ Return
  \/ Tick

SpecLive ==
  /\ InitLive
  /\ [][NextLive]_vars
  /\ WF_vars(Return)
  /\ SF_vars(CheckBegin)
  /\ SF_vars(CheckScan)
  /\ SF_vars(CheckAdd)

\* The command handlers with all their branches, one handler at a time,
\* over any subscribers file and with I/O errors at the saves.
InitCommands ==
  /\ file \in Files
  /\ Constructed
  /\ watch = NoWatch
  /\ updates = 0
  /\ restarts = MaxRestarts
  /\ faults = MaxFaults

NextCommands ==
  \/ Quiet /\ Startup
  \/ Quiet /\ Settled /\ Subscribe
  \/ Quiet /\ SubscribeAgain
  \/ Quiet /\ SubscribeReplyFails
  \/ Quiet /\ Unsubscribe
  \/ Quiet /\ UnsubscribeAbsent
  \/ Quiet /\ RunJob
  \/ Quiet /\ Tick
  \/ Quiet /\ Restart
  \/ SendOk
  \/ SendFails
  \/ Return

SpecCommands == InitCommands /\ [][NextCommands]_vars

\* ===================================================================
\* Properties
\* ===================================================================

\* The pass that just completed ran right after another pass, with the same
\* fetched list and the same now_utc, and no job fired in between.
Repeated ==
  /\ last # NoRun
  /\ last.prev # NoRun
  /\ last.prev.contests = last.contests
  /\ last.prev.now_utc = last.now_utc

\* C1: a scheduling pass run right after another one, with the same contest
\* list and the same now, schedules nothing and leaves the job store as the
\* first pass left it.
C1_ReconcileIdempotent ==
  Repeated => /\ last.scheduled_count = 0
              /\ last.jobs = last.prev.jobs
              /\ jobs = last.prev.jobs

\* A second pass over a list whose first pass scheduled jobs.
C1_Witness ==
  /\ Repeated
  /\ last.prev.scheduled_count > 0
  /\ last.scheduled_count = 0

\* C2: whatever the interleaving of the startup pass, the subscribe passes
\* and the steps of the periodic check, the store never holds two pending
\* jobs with the same (contest id, interval) identity.
C2_NoDuplicateJobs == \A j \in JobIds : Len(jobs[j]) <= 1

\* The periodic check found no job for its position, and before its add_job
\* a pass on the event loop has scheduled that very job.
C2_Witness ==
  /\ check.pc = "add"
  /\ get_job(jobs, JobId(PairContest(check.contests, check.p).id,
                         REMINDER_INTERVALS[PairInterval(check.p)].interval_str)) # <<>>

\* C3: the watched chat gets at most one message for each (contest id,
\* interval) pair of the watched contest, whatever passes and job firings
\* take place.
C3_AtMostOnce == \A l \in Labels : sent[l] <= 1

\* C4: once a reminder of the watched contest has been sent in vain to the
\* watched chat for a transient reason, the chat is still subscribed, and
\* nothing about that contest is left to happen (it has begun, the provider
\* will not move it, no job for it is pending and no handler is running) in
\* a process that never went down, the chat has received a reminder for
\* that contest.
C4_TransientFailureRecovered ==
  ( /\ failed # {}
    /\ watch[1] \in subscribers
    /\ restarts = MaxRestarts
    /\ Quiet
    /\ Settled
    /\ updates = 0
    /\ now >= remote[watch[2]].startTimeSeconds
    /\ \A l \in Labels : jobs[JobId(watch[2], l)] = <<>> )
  => \E l \in Labels : sent[l] >= 1

\* The now of the pass that is adding jobs in this step: the now_utc the
\* periodic check took at line 213 when the step is its add_job, the clock
\* otherwise (a pass on the event loop is one step).
PassNow == IF check.pc = "add" /\ check' # check THEN check.now_utc ELSE now

\* The job this step has put under id j, if it put one.
Added(j) == Len(jobs'[j]) > Len(jobs[j])
NewestJob(j) == jobs'[j][Len(jobs'[j])]

\* C5: every job a step adds to the store fires strictly after the now of
\* the pass that adds it, at the contest's start minus the interval, and
\* belongs to a contest that starts strictly after that now.
C5_OnlyFutureReminders ==
  [][\A j \in JobIds :
       Added(j) =>
         /\ NewestJob(j).run_date > PassNow
         /\ NewestJob(j).run_date = NewestJob(j).contest.startTimeSeconds - Delta(j[2])
         /\ NewestJob(j).contest.startTimeSeconds > PassNow
         /\ NewestJob(j).contest.id = j[1]]_vars

\* A pass at the very instant of a contest's "1h" reminder: it scheduled the
\* "15m" reminder of that contest and not the "1h" one.
C5_Witness ==
  /\ last # NoRun
  /\ last.scheduled_count > 0
  /\ \E i \in 1..Len(last.contests) :
       LET contest == last.contests[i]
       IN  /\ contest.startTimeSeconds - 3600 = last.now_utc
           /\ jobs[JobId(contest.id, "1h")] = <<>>
           /\ jobs[JobId(contest.id, "15m")] # <<>>
           /\ Head(jobs[JobId(contest.id, "15m")]).contest = contest

\* Number of jobs the step has added to the store.
NumAdded == Cardinality({j \in JobIds : Added(j)})

\* The step is a whole pass on the event loop (startup or subscribe).
WholePass == last = NoRun /\ last' # NoRun /\ check' = check

\* C6: a pass over a list gives every listed contest that has no pending job
\* and starts after now exactly the reminders whose instant is after now,
\* each at the start minus its interval; it touches no job of a contest that
\* is not listed; and the count it reports is the number of jobs it added
\* (the periodic check counts one per job it adds and reports its count).
C6_ExactJobSet ==
  [][/\ WholePass =>
          /\ \A i \in 1..Len(last'.contests) :
               LET contest == last'.contests[i]
               IN  ( /\ \A l \in Labels : jobs[JobId(contest.id, l)] = <<>>
                     /\ contest.startTimeSeconds > last'.now_utc )
                   => \A l \in Labels :
                        LET held == jobs'[JobId(contest.id, l)]
                        IN  IF contest.startTimeSeconds - Delta(l) > last'.now_utc
                            THEN /\ Len(held) = 1
                                 /\ held[1].run_date = contest.startTimeSeconds - Delta(l)
                                 /\ held[1].contest = contest
                                 /\ held[1].interval_str = l
                            ELSE held = <<>>
          /\ \A j \in JobIds :
               (\A i \in 1..Len(last'.contests) : last'.contests[i].id # j[1])
               => jobs'[j] = jobs[j]
          /\ last'.scheduled_count = NumAdded
          /\ last'.jobs = jobs'
     /\ (check.pc = "add" /\ check'.pc = "scan")
          => check'.scheduled_count = check.scheduled_count + NumAdded
     /\ (check.pc = "scan" /\ check'.pc = "idle" /\ last' # NoRun)
          => last'.scheduled_count = check.scheduled_count /\ jobs' = jobs]_vars

\* The first pass, over a contest that starts 2 hours from now and another
\* a day ahead: the former got its "1h" and "15m" reminders and no "24h"
\* one, and the pass reported the five jobs it added.
C6_Witness ==
  /\ last # NoRun
  /\ last.prev = NoRun
  /\ last.scheduled_count = 5
  /\ \E i \in 1..Len(last.contests) :
       LET contest == last.contests[i]
       IN  /\ contest.startTimeSeconds = last.now_utc + 2 * 3600
           /\ jobs[JobId(contest.id, "24h")] = <<>>
           /\ jobs[JobId(contest.id, "1h")] # <<>>
           /\ jobs[JobId(contest.id, "15m")] # <<>>

\* send_actual_reminder has gone through its loop and returned.
Delivered == dl.state = "returned" /\ dl.why = "done"

\* The send to the recipient at position i of the snapshot found it unreachable.
FoundUnreachable(i) == dl.results[i] = "unreachable"

\* C7: when send_actual_reminder returns from its loop, every recipient of
\* the snapshot has had one send attempt, the recipients found unreachable
\* are out of the subscribers, and every chat that was subscribed at the
\* call and was not found unreachable is still subscribed.
C7_UnreachableRemoved ==
  Delivered =>
    /\ Len(dl.results) = Len(dl.chat_ids_to_notify)
    /\ Range(dl.chat_ids_to_notify) = dl.before
    /\ \A i \in 1..Len(dl.results) :
         FoundUnreachable(i) => dl.chat_ids_to_notify[i] \notin subscribers
    /\ \A chat_id \in dl.before :
         (\A i \in 1..Len(dl.results) :
            dl.chat_ids_to_notify[i] = chat_id => ~FoundUnreachable(i))
         => chat_id \in subscribers

\* The first recipient of a snapshot of two was found unreachable, and the
\* second was sent the message and is the only subscriber left.
C7_Witness ==
  /\ Delivered
  /\ dl.results = <<"unreachable", "ok">>
  /\ subscribers = {dl.chat_ids_to_notify[2]}

\* C8: a call of send_actual_reminder for a contest that started a minute
\* before the call or earlier returns with no send attempted and the
\* subscribers as they were; a call for a contest that starts later than
\* that, made while there are subscribers, goes on to the sends.
C8_StartedSuppressed ==
  (dl.state # "idle" /\ dl.why # "missed") =>
    /\ dl.contest.startTimeSeconds <= dl.at - 60
         => /\ dl.state = "returned"
            /\ dl.results = <<>>
            /\ subscribers = dl.before
    /\ (dl.contest.startTimeSeconds > dl.at - 60 /\ dl.before # {})
         => \/ dl.state = "sending"
            \/ Delivered /\ Len(dl.results) = Cardinality(dl.before)

\* A call made exactly one minute after the contest's start, with
\* subscribers, that returned at the test of line 178.
C8_Witness ==
  /\ dl.state = "returned"
  /\ dl.why = "started"
  /\ dl.before # {}
  /\ dl.at = dl.contest.startTimeSeconds + 60

\* C9: a reminder job run, or send_actual_reminder called, while there is no
\* subscriber returns at once with no send attempted, and changes neither
\* the subscribers nor the file.
C9_NoSubscribers ==
  [][(dl.state = "idle" /\ dl'.state # "idle" /\ subscribers = {})
       => /\ dl'.state = "returned"
          /\ dl'.results = <<>>
          /\ dl'.chat_ids_to_notify = <<>>
          /\ UNCHANGED << subscribers, file, saved >>]_vars

\* send_actual_reminder returned at line 175: nobody to notify, for a contest
\* that has not begun.
C9_Witness ==
  /\ dl.state = "returned"
  /\ dl.why = "no_subscribers"
  /\ subscribers = {}
  /\ dl.contest.startTimeSeconds > dl.at

\* C10: what load_subscribers reads back after a save_subscribers that met
\* no I/O error is the set that was saved; from an absent file, a file that
\* is not JSON or one that holds no JSON list it reads the empty set; and a
\* process that has just come up holds what load_subscribers read.
C10_RoundTrip ==
  /\ saved.outcome = "ok" => load_subscribers(file) = saved.set
  /\ file.kind # "json_list" => load_subscribers(file) = {}
  /\ ~started => subscribers = load_subscribers(file)

\* A process restarted after two chats were saved holds both again.
C10_Witness ==
  /\ ~started
  /\ restarts < MaxRestarts
  /\ saved.outcome = "ok"
  /\ saved.set = ChatIds
  /\ subscribers = ChatIds

\* C11: whenever the subscribers have been saved and no handler is at work
\* (no delivery in progress, no pass just completed), the file holds the
\* subscribers: no add or discard has been lost and the file is readable.
C11_StoreSerialized ==
  (saved.outcome # "none" /\ dl.state = "idle" /\ Settled)
  => /\ file.kind = "json_list"
     /\ load_subscribers(file) = subscribers

SubscribeHandled ==
  \/ subscribers' # subscribers /\ subscribers \subseteq subscribers'
  \/ last' # last /\ last'.kind = "already_subscribed"

\* C13: every subscribe command ends with its caller subscribed and with a
\* scheduling pass made by the command, at that instant.
C13_SubscribeRunsPass ==
  [][SubscribeHandled =>
       /\ last' # last
       /\ last'.kind = "pass"
       /\ last'.now_utc = now
       /\ subscribers' # {}]_vars

\* The scheduler has taken a due job out of the store in this step.
JobTaken(j) ==
  /\ dl.state = "idle"
  /\ dl'.state # "idle"
  /\ jobs[j] # <<>>
  /\ jobs' = [jobs EXCEPT ![j] = Tail(jobs[j])]

\* C14: a reminder job leaves the store when the scheduler takes it, not
\* before its run_date; taken within 5 minutes of it, send_actual_reminder
\* is called at that instant with its contest and interval; taken later, the
\* job is dropped with no send and no change to the subscribers.
C14_MisfireGrace ==
  [][\A j \in JobIds :
       JobTaken(j) =>
         LET job == Head(jobs[j])
         IN  /\ job.run_date <= now
             /\ dl'.contest = job.contest
             /\ dl'.interval_str = job.interval_str
             /\ dl'.at = now
             /\ now <= job.run_date + 300
                  => /\ dl'.why # "missed"
                     /\ dl' = DeliveryBegun(job.contest, job.interval_str)
             /\ now > job.run_date + 300
                  => /\ dl'.state = "returned"
                     /\ dl'.why = "missed"
                     /\ dl'.results = <<>>
                     /\ dl'.chat_ids_to_notify = <<>>
                     /\ UNCHANGED << subscribers, file, sent >>]_vars

\* A job found more than 5 minutes late, with subscribers waiting for it,
\* was dropped.
C14_Witness ==
  /\ dl.state = "returned"
  /\ dl.why = "missed"
  /\ dl.before # {}
  /\ dl.at > dl.contest.startTimeSeconds - Delta(dl.interval_str) + 300
  /\ jobs[JobId(dl.contest.id, dl.interval_str)] = <<>>

\* The step is a handler changing the subscribers of the running process.
StoreMutated == started /\ started' /\ subscribers' # subscribers

\* C15: a subscribe, an unsubscribe or the removal of an unreachable
\* recipient whose save met no I/O error leaves a file that holds the
\* subscribers; a subscribe from a chat already subscribed and an unsubscribe
\* from a chat not subscribed change neither the subscribers nor the file.
C15_FileFollowsStore ==
  [][/\ (StoreMutated /\ saved'.outcome = "ok")
          => /\ saved'.set = subscribers'
             /\ file'.kind = "json_list"
             /\ load_subscribers(file') = subscribers'
     /\ (last' # last /\ last'.kind = "already_subscribed")
          => /\ last'.chat_id \in subscribers
             /\ UNCHANGED << subscribers, file >>
     /\ (last' # last /\ last'.kind = "not_subscribed")
          => /\ last'.chat_id \notin subscribers
             /\ UNCHANGED << subscribers, file >>]_vars

\* An unsubscribe from a chat that is not subscribed, after a save that met
\* no error: the file still holds the subscribers there are.
C15_Witness ==
  /\ last.kind = "not_subscribed"
  /\ saved.outcome = "ok"
  /\ subscribers # {}
  /\ saved.set = subscribers
  /\ file = JsonList(SetToList(subscribers))

\* The step completes a scheduling pass whose fetch came back empty.
EmptyPass == last' # last /\ last'.kind = "pass" /\ last'.contests = <<>>

\* C16: a fetch that fails (status not OK, or any exception) returns the
\* empty list; a pass over an empty list reports no job scheduled and leaves
\* the job store as it was, and ends the periodic check; made by the startup
\* hook or the periodic check it leaves the subscribers and their file as
\* they were, and made by a subscribe command it leaves them as the command
\* had set them.
C16_FailedFetchNoChange ==
  [][/\ \A outcome \in FetchOutcomes \ {"OK"} : fetch_upcoming_contests(outcome) = <<>>
     /\ EmptyPass =>
          /\ last'.scheduled_count = 0
          /\ last'.now_utc = now
          /\ jobs' = jobs
          /\ last'.jobs = jobs
          /\ check' = check \/ check' = IdleCheck
          /\ dl' = dl
          /\ \/ UNCHANGED << subscribers, file >>
             \/ /\ started
                /\ \E chat_id \in ChatIds \ subscribers :
                     subscribers' = subscribers \cup {chat_id}
                /\ saved'.set = subscribers']_vars

\* A pass whose fetch failed while the provider lists a contest still to
\* come and reminders are pending: they are pending still.
C16_Witness ==
  /\ last.kind = "pass"
  /\ last.contests = <<>>
  /\ last.jobs = jobs
  /\ ActiveJobs(jobs) # {}
  /\ \E c \in ContestIds :
       remote[c].phase = "BEFORE" /\ remote[c].startTimeSeconds > now

\* The step is one send of the loop of line 192, to the chat at position dl.i.
SendDone == dl.state = "sending" /\ Len(dl'.results) = Len(dl.results) + 1

\* C17: the errors taken for an unreachable recipient are the five phrases
\* of lines 199-203 and no other; a send that raises one of them removes its
\* recipient and nobody else from the subscribers; a send that succeeds or
\* raises anything else changes neither the subscribers nor the file, and
\* saves nothing.
C17_RemovedIffUnreachable ==
  [][/\ \A e \in SendErrors :
          IsUnreachable(e) <=>
            e \in { "bot was blocked", "user is deactivated", "chat not found",
                    "forbidden: bot was kicked",
                    "forbidden: bot can't initiate conversation with a user" }
     /\ SendDone =>
          LET chat_id == dl.chat_ids_to_notify[dl.i]
              result == dl'.results[Len(dl'.results)]
          IN  /\ result = "unreachable" => subscribers' = subscribers \ {chat_id}
              /\ result # "unreachable" => UNCHANGED << subscribers, file, saved >>
              /\ (chat_id \in subscribers /\ chat_id \notin subscribers')
                   => result = "unreachable"]_vars

\* A delivery to two chats: the send to the first timed out and it is still
\* subscribed, the second was not found and is gone.
C17_Witness ==
  /\ Delivered
  /\ dl.results = <<"transient", "unreachable">>
  /\ dl.before = {dl.chat_ids_to_notify[1], dl.chat_ids_to_notify[2]}
  /\ subscribers = {dl.chat_ids_to_notify[1]}

\* C18: when a pass has completed, every pending job of a contest of the
\* list it fetched fires at the start that list gives minus the job's
\* interval, and carries a contest record with that start.
C18_JobsFollowFetch ==
  last.kind = "pass" =>
    \A i \in 1..Len(last.contests) :
      \A l \in Labels :
        LET contest == last.contests[i]
            held == jobs[JobId(contest.id, l)]
        IN  \A k \in 1..Len(held) :
              /\ held[k].run_date = contest.startTimeSeconds - Delta(l)
              /\ held[k].contest.startTimeSeconds = contest.startTimeSeconds

\* The step is a subscribe command of the running process: it adds chat_id
\* and nobody else, and saves.
SubscribedBy(chat_id) ==
  /\ started
  /\ started'
  /\ subscribers' = subscribers \cup {chat_id}
  /\ saved'.set = subscribers'

\* The step is the process coming up again with what load_subscribers reads.
Reloaded == started /\ ~started' /\ subscribers' = load_subscribers(file)

\* C19 as stated: a chat that is not subscribed becomes subscribed only by
\* a subscribe command of its own.
C19_OnlyBySubscribe ==
  [][\A chat_id \in subscribers' \ subscribers : SubscribedBy(chat_id)]_vars

\* C19: in a running process a chat that is not subscribed becomes
\* subscribed only by a subscribe command of its own: no pass, periodic
\* check or delivery adds one.  The only other way in is a restart, which
\* takes the subscribers from the file (where a removal whose save failed
\* is missing).
C19_OnlyBySubscribeOrReload ==
  [][\A chat_id \in subscribers' \ subscribers :
       SubscribedBy(chat_id) \/ Reloaded]_vars

\* A process that came up again with a chat that had unsubscribed: the save
\* of the removal had failed at open.
C19_Witness ==
  /\ ~started
  /\ restarts < MaxRestarts
  /\ saved.outcome = "open_error"
  /\ subscribers \ saved.set # {}

\* C20: a reminder job that the scheduler runs calls send_actual_reminder
\* before the start its contest record gives, and so never returns at the
\* test of line 178.
C20_FiredBeforeStart ==
  (dl.state # "idle" /\ dl.why # "missed") =>
    /\ dl.at < dl.contest.startTimeSeconds
    /\ dl.at <= dl.contest.startTimeSeconds - 15 * 60 + 300
    /\ dl.why # "started"

\* The "15m" job run at the very end of its grace, 10 minutes before the
\* start, with a subscriber to send to.
C20_Witness ==
  /\ dl.state = "sending"
  /\ dl.interval_str = "15m"
  /\ dl.at = dl.contest.startTimeSeconds - 15 * 60 + 300

\* The step is a scheduling pass or one step of the periodic check.
PassStep ==
  \/ last' # last /\ last'.kind = "pass"
  \/ check' # check /\ started' = started

\* C21: a scheduling pass leaves every pending job where it was, with its
\* run_date and its contest record, whatever the fetched list says about its
\* contest; and the job, when the scheduler runs it, hands that contest
\* record and its interval to send_actual_reminder.
C21_PassKeepsJobs ==
  [][/\ PassStep =>
          \A j \in JobIds :
            /\ Len(jobs'[j]) >= Len(jobs[j])
            /\ SubSeq(jobs'[j], 1, Len(jobs[j])) = jobs[j]
     /\ \A j \in JobIds :
          JobTaken(j) =>
            /\ dl'.contest = Head(jobs[j]).contest
            /\ dl'.interval_str = Head(jobs[j]).interval_str]_vars

\* A pass has completed over a list that gives a contest another start than
\* the one a pending job of that contest was scheduled for: the job is
\* pending still, for the start it was made with.
C21_Witness ==
  /\ last.kind = "pass"
  /\ \E i \in 1..Len(last.contests) :
       \E l \in Labels :
         LET contest == last.contests[i]
             held == jobs[JobId(contest.id, l)]
         IN  /\ held # <<>>
             /\ Head(held).contest.startTimeSeconds # contest.startTimeSeconds
             /\ Head(held).run_date = Head(held).contest.startTimeSeconds - Delta(l)
             /\ Head(held).run_date > last.now_utc

====
